---- MODULE Spec2Model ----
(***************************************************************************)
(* Operator-splitting time stepping of xalbrain's SplittingSolver          *)
(* (src/xalbrain/splittingsolver.py): solve, step and merge, over the      *)
(* three solution fields vs_ (previous), vs (current) and vur (PDE         *)
(* output).                                                                *)
(*                                                                         *)
(* Times are integers that are multiples of ThetaDen, so that the          *)
(* midpoint t = t0 + theta*dt is exact; theta is the fraction              *)
(* theta / ThetaDen.  Every sub-component of a field carries, next to its  *)
(* value, the time up to which the reaction (ODE) operator and the         *)
(* diffusion (PDE) operator have been applied to it: a field is "the       *)
(* state at time t" when all of these are t.                               *)
(***************************************************************************)
EXTENDS Integers, Sequences, FiniteSets, TLC

(* ------------------------------ bounds -------------------------------- *)
ThetaDen == 2
NumVals == 3
MaxTime == 3
MaxDt == 2
MaxStepperTime == 6

Val == 0 .. (NumVals - 1)
Times == { ThetaDen * k : k \in 0 .. MaxTime }
StartTimes == { 0, ThetaDen }
StepSizes == { ThetaDen * k : k \in 0 .. MaxDt }
Thetas == 0 .. ThetaDen
NoTime == 0 - 1

BidomainSolvers == { "BasicBidomainSolver", "BidomainSolver" }
MonodomainSolvers == { "BasicMonodomainSolver", "MonodomainSolver" }
PDESolvers == BidomainSolvers \cup MonodomainSolvers

VARIABLES
  theta,        \* parameters.theta, as a numerator over ThetaDen
  pde_solver,   \* pde_parameters.solver
  interval,     \* the (T0, T1) given to solve
  dt,           \* the step size given to solve (of a list: its first step size)
  dt_list,      \* the further (switch-time, step size) pairs of a list, if any
  vs_,          \* previous CompositeState
  vs,           \* current CompositeState
  vur,          \* PDE output
  pc,           \* position of the solve generator
  stepper_t,    \* the Time Stepper's position
  cur,          \* the interval (t0, t1) of the timestep in progress
  vs_entry,     \* vs_ as it stood on entry to step
  ode_in,       \* the state read by the most recent ODE step
  vs_star,      \* the output of the tentative ODE step of this timestep
  pde_in,       \* the v read by the most recent PDE step
  trace,        \* the sub-steps executed so far in this timestep
  emitted,      \* the elements yielded so far
  M_i,          \* the model's conductivity (0: no diffusion coupling)
  pde_theta,    \* pde_parameters.theta, as a numerator over ThetaDen
  apply_stimulus_current_to_pde,   \* parameters.apply_stimulus_current_to_pde
  ode_I_s,      \* the I_s the ODE executor was constructed with
  pde_I_s,      \* the I_s the PDE executor was constructed with
  merger_V,     \* the source space of self.merger
  refs,         \* the objects bound to self.vs_, self.vs and self.vur
  ics,          \* the initial conditions the caller wrote into previous
  edits,        \* what the caller wrote into the fields since the last yield
  handles,      \* the results of the caller's calls of solution_fields()
  prior         \* how the caller left the preceding solve sequence, if any

vars == << theta, pde_solver, interval, dt, dt_list, vs_, vs, vur, pc, stepper_t, cur,
           vs_entry, ode_in, vs_star, pde_in, trace, emitted, M_i, pde_theta,
           apply_stimulus_current_to_pde, ode_I_s, pde_I_s, merger_V, refs,
           ics, edits, handles, prior >>

config == << theta, pde_solver, interval, dt, dt_list, M_i >>
construction == << pde_theta, apply_stimulus_current_to_pde, ode_I_s, pde_I_s,
                   merger_V, refs >>
caller == << ics, edits, handles, prior >>
ghosts == << vs_entry, ode_in, vs_star, pde_in >>

(* ------------------------------ fields -------------------------------- *)
CompositeState(v, s, vode, vpde, sode) ==
  [ v |-> v, s |-> s, vode |-> vode, vpde |-> vpde, sode |-> sode ]

ZeroState == CompositeState(0, 0, NoTime, NoTime, NoTime)

ValidAt(x, t) == x.vode = t /\ x.vpde = t /\ x.sode = t

IsBidomain == pde_solver \in BidomainSolvers

\* The PDE output: for the bidomain solvers a mixed function (v, u), for the
\* monodomain solvers the function v itself.
PotentialField(v, u, vode, vpde) ==
  [ f |-> IF IsBidomain THEN << v, u >> ELSE v, vode |-> vode, vpde |-> vpde ]

ZeroField == PotentialField(0, 0, NoTime, NoTime)

\* The transmembrane-potential sub-component of a PDE output.
VSub(w) == IF IsBidomain THEN w.f[1] ELSE w.f

(* ------------------------ the ODE executor ---------------------------- *)
RECURSIVE OdeFlow(_, _, _)
OdeFlow(v, s, n) ==
  IF n <= 0 THEN << v, s >>
  ELSE OdeFlow((v + s + 1) % NumVals, (s + 1) % NumVals, n - 1)

\* ode_solver.step((a, b)): reads its vs_ and gives its vs.
OdeStep(x, a, b) ==
  LET r == OdeFlow(x.v, x.s, b - a)
      ok == x.vode = a /\ x.sode = a /\ a <= b
  IN  CompositeState(r[1], r[2],
                     IF ok THEN b ELSE NoTime,
                     x.vpde,
                     IF ok THEN b ELSE NoTime)

(* ------------------------ the PDE executor ---------------------------- *)
\* Diffusion moves v in proportion to the conductivity M_i and the length
\* of the interval; with M_i = 0 the PDE step returns the v it was given.
PdeV(v, n) == (v + M_i * n) % NumVals
PdeU(v, n) == (2 * PdeV(v, n) + 1) % NumVals

\* (mutant) the PDE executor bound to the previous state: v_ = self.vs_[0]
PdeInput_previous == vs_

\* The v the PDE executor is constructed with: v_ = self.vs[0].
PdeInput == vs

\* pde_solver.step((a, b)): reads its v_ and gives vur.
PdeStep(x, a, b) ==
  PotentialField(PdeV(x.v, b - a), PdeU(x.v, b - a),
                 x.vode,
                 IF x.vpde = a /\ a < b THEN b ELSE NoTime)

(* ------------------------- the Time Stepper --------------------------- *)
\* A step specification is a constant d, or the list (T0, d), dt_list[1], ...
\* of (switch-time, step size) pairs.
StepList(iv, d) == << << iv[1], d >> >> \o dt_list

\* (mutant) a step size of zero is accepted
StepperValid_zero(iv, d) ==
  /\ iv[1] < iv[2]
  /\ \A i \in 1 .. Len(StepList(iv, d)) : StepList(iv, d)[i][2] >= 0
  /\ \A i \in 1 .. Len(dt_list) : StepList(iv, d)[i][1] < dt_list[i][1]

StepperValid(iv, d) ==
  /\ iv[1] < iv[2]
  /\ \A i \in 1 .. Len(StepList(iv, d)) : StepList(iv, d)[i][2] > 0
  /\ \A i \in 1 .. Len(dt_list) : StepList(iv, d)[i][1] < dt_list[i][1]

Min(a, b) == IF a <= b THEN a ELSE b

\* (mutant) the end test has a tolerance of one time unit
StepperHasNext_tolerant(tt, iv) == tt + ThetaDen < iv[2]

StepperHasNext(tt, iv) == tt < iv[2]

\* (mutant) a new step size is already used by the interval that contains
\* its switch-time
ActiveDt_early(tt, iv, d) ==
  LET l == StepList(iv, d)
      on == { i \in 1 .. Len(l) : l[i][1] < tt + d }
  IN  l[CHOOSE i \in on : \A j \in on : j <= i][2]

\* The step size in force for an interval that starts at tt: that of the
\* last pair whose switch-time is at or before tt.
ActiveDt(tt, iv, d) ==
  LET l == StepList(iv, d)
      on == { i \in 1 .. Len(l) : l[i][1] <= tt }
  IN  l[CHOOSE i \in on : \A j \in on : j <= i][2]

\* (mutant) the last interval is not clipped to T1
StepperNext_noclip(tt, iv, d) == << tt, tt + ActiveDt(tt, iv, d) >>

\* (mutant) the remainder is spread: the last interval is stretched to T1
StepperNext_stretch(tt, iv, d) ==
  << tt, IF tt + 2 * ActiveDt(tt, iv, d) > iv[2] THEN iv[2]
         ELSE tt + ActiveDt(tt, iv, d) >>

StepperNext(tt, iv, d) == << tt, Min(tt + ActiveDt(tt, iv, d), iv[2]) >>

\* The whole sequence of intervals the Time Stepper produces from tt on.
RECURSIVE StepperIntervals(_, _, _)
StepperIntervals(tt, iv, d) ==
  IF ~ StepperHasNext(tt, iv) \/ ~ StepperValid(iv, d) THEN << >>
  ELSE << StepperNext(tt, iv, d) >>
         \o StepperIntervals(StepperNext(tt, iv, d)[2], iv, d)

(* ------------------------------ merge --------------------------------- *)
\* The v picked from vur: vur.sub(0) for the bidomain solvers, else vur.
\* (mutant) the extracellular potential is picked instead of v
MergeSource_u ==
  IF pde_solver \in BidomainSolvers THEN vur.f[2] ELSE vur.f

MergeSource ==
  IF pde_solver \in BidomainSolvers THEN vur.f[1] ELSE vur.f

\* The function merge hands to the merger as its source: vur.sub(0) or vur.
MergeSourceSpace ==
  IF pde_solver \in BidomainSolvers THEN "vur.sub(0)" ELSE "vur"

\* (mutant) the merge forgotten: target is left as it is
Merge_skip(target) == target

\* (mutant) the whole of vur is assigned: u lands in the target's s
Merge_whole(target) ==
  [ target EXCEPT !.v = MergeSource, !.vode = vur.vode, !.vpde = vur.vpde,
                  !.s = IF IsBidomain THEN vur.f[2] ELSE 0 ]

\* (mutant) the PDE's v is added to the target's v instead of assigned
Merge_accumulate(target) ==
  [ target EXCEPT !.v = (target.v + MergeSource) % NumVals,
                  !.vode = vur.vode, !.vpde = vur.vpde ]

Merge(target) ==
  [ target EXCEPT !.v = MergeSource, !.vode = vur.vode, !.vpde = vur.vpde ]

(* ------------------------------ step ---------------------------------- *)
t0 == cur[1]
t1 == cur[2]
\* t = t0 + theta*dt
t == t0 + (theta * (t1 - t0)) \div ThetaDen

Op(op, a, b, src, dst) ==
  [ op |-> op, a |-> a, b |-> b, src |-> src, dst |-> dst ]

\* (mutant) the element carries the interval given to solve
Element_whole ==
  [ interval |-> interval, fields |-> refs, vs_ |-> vs_, vs |-> vs, vur |-> vur ]

\* self.solution_fields(): the three objects self.vs_, self.vs, self.vur
SolutionFields == refs

\* (t0, t1), self.solution_fields()
Element ==
  [ interval |-> cur, fields |-> SolutionFields,
    vs_ |-> vs_, vs |-> vs, vur |-> vur ]

(* --------------------------- construction ---------------------------- *)
\* The objects created by the executors' constructors; self.vs_, self.vs
\* and self.vur are bound to them.
Unbound == "unbound"
OdeFields == << "ode.vs_", "ode.vs" >>
PdeField == "pde.vur"

\* (mutant) the stimulus is given to the ODE executor whatever the flag says
OdeStimulus_always == "stimulus"

\* The I_s of the ODE executor: none when the stimulus goes to the PDE.
OdeStimulus ==
  IF apply_stimulus_current_to_pde THEN "None" ELSE "stimulus"

\* The I_s of the PDE executor: the model's stimulus when the flag is set.
PdeStimulus ==
  IF apply_stimulus_current_to_pde THEN "stimulus" ELSE "None"

\* (mutant) the variant test at construction knows only one of the two
\* bidomain solvers
MergerSpace_single ==
  IF pde_solver \in { "BidomainSolver" } THEN "vur.sub(0)" ELSE "vur"

\* The source space of the merger: sub-space 0 of vur's space for the
\* bidomain solvers, vur's space itself otherwise.
MergerSpace ==
  IF pde_solver \in { "BasicBidomainSolver", "BidomainSolver" }
    THEN "vur.sub(0)" ELSE "vur"

\* The solver as __init__ leaves it.
Constructed ==
  /\ pde_theta = theta
  /\ ode_I_s = OdeStimulus
  /\ pde_I_s = PdeStimulus
  /\ merger_V = MergerSpace
  /\ refs = OdeFields \o << PdeField >>

\* No caller has touched the solver yet.
NoCaller ==
  /\ edits = { }
  /\ handles = { }
  /\ prior = "none"

\* The lists given to solve: none (a constant step size), or one further
\* pair, which switches to the smallest step size or to a step size of zero.
SwitchLists(T0) ==
  { << >> } \cup
  { << << sw, d >> >> : sw \in { T0, T0 + ThetaDen }, d \in { 0, ThetaDen } }

\* The solver after construction and the caller's initial conditions, and
\* the arguments of solve; the conductivity is left to the specification.
InitSolver ==
  /\ theta \in Thetas
  /\ pde_solver \in PDESolvers
  /\ interval \in StartTimes \X Times
  /\ dt \in StepSizes
  /\ dt_list \in (IF dt = ThetaDen * MaxDt THEN SwitchLists(interval[1])
                                           ELSE { << >> })
  /\ \E v \in Val, s \in Val :
       vs_ = CompositeState(v, s, interval[1], interval[1], interval[1])
  /\ vs = ZeroState
  /\ vur = ZeroField
  /\ pc = "idle"
  /\ stepper_t = interval[1]
  /\ cur = << interval[1], interval[1] >>
  /\ vs_entry = vs_
  /\ ode_in = ZeroState
  /\ vs_star = ZeroState
  /\ pde_in = 0
  /\ trace = << >>
  /\ emitted = << >>
  /\ apply_stimulus_current_to_pde = FALSE
  /\ Constructed
  /\ ics = vs_
  /\ NoCaller

Init == InitSolver /\ M_i = 1

\* (mutant) the body of solve starts to run when the sequence is created
Solve_eager ==
  /\ pc = "idle"
  /\ StepperValid(interval, dt)
  /\ cur' = StepperNext(stepper_t, interval, dt)
  /\ stepper_t' = cur'[2]
  /\ ode_in' = vs_
  /\ vs' = OdeStep(vs_, cur'[1], cur'[2])
  /\ pc' = "created"
  /\ UNCHANGED << config, construction, caller, vs_, vur, vs_entry, vs_star, pde_in, trace, emitted >>

\* solver.solve(interval, dt): creates the generator; nothing runs yet.
Solve ==
  /\ pc = "idle"
  /\ pc' = "created"
  /\ UNCHANGED << config, construction, caller, vs_, vs, vur, stepper_t, cur, ghosts, trace, emitted >>

\* The entry of step for the next interval of the Time Stepper.
EnterStep(from) ==
  /\ cur' = StepperNext(stepper_t, interval, dt)
  /\ stepper_t' = cur'[2]
  /\ vs_entry' = from
  /\ trace' = << >>
  /\ pc' = "tentative_ode"

\* First request: TimeStepper(interval, dt) rejects the step specification.
StartInvalid ==
  /\ pc = "created"
  /\ ~ StepperValid(interval, dt)
  /\ pc' = "error"
  /\ UNCHANGED << config, construction, caller, vs_, vs, vur, stepper_t, cur, ghosts, trace, emitted >>

\* (mutant) the previous state is updated at the head of the loop, before
\* the first step too
StartFirst_assign ==
  /\ pc = "created"
  /\ StepperValid(interval, dt)
  /\ StepperHasNext(stepper_t, interval)
  /\ vs_' = vs
  /\ EnterStep(vs_')
  /\ UNCHANGED << config, construction, caller, vs, vur, ode_in, vs_star, pde_in,
                  emitted >>

\* First request: the first interval is taken and step is entered.
StartFirst ==
  /\ pc = "created"
  /\ StepperValid(interval, dt)
  /\ StepperHasNext(stepper_t, interval)
  /\ EnterStep(vs_)
  /\ UNCHANGED << config, construction, caller, vs_, vs, vur, ode_in, vs_star, pde_in, emitted >>

\* (mutant) the ODE executor's two fields are one storage
TentativeODE_aliased ==
  /\ pc = "tentative_ode"
  /\ ode_in' = vs_
  /\ vs' = OdeStep(vs_, t0, t)
  /\ vs_' = vs'
  /\ vs_star' = vs'
  /\ trace' = Append(trace, Op("ode", t0, t, "vs_", "vs"))
  /\ pc' = "pde"
  /\ UNCHANGED << config, construction, caller, vur, stepper_t, cur, vs_entry, pde_in, emitted >>

\* self.ode_solver.step((t0, t))
TentativeODE ==
  /\ pc = "tentative_ode"
  /\ ode_in' = vs_
  /\ vs' = OdeStep(vs_, t0, t)
  /\ vs_star' = vs'
  /\ trace' = Append(trace, Op("ode", t0, t, "vs_", "vs"))
  /\ pc' = "pde"
  /\ UNCHANGED << config, construction, caller, vs_, vur, stepper_t, cur, vs_entry, pde_in, emitted >>

\* What a sub-step that raises leaves in its output field: the field as it
\* was, or the result it did not converge to.
UnconvergedState(x) == [ x EXCEPT !.vode = NoTime, !.sode = NoTime ]
UnconvergedField(x) == [ x EXCEPT !.vode = NoTime, !.vpde = NoTime ]

\* (mutant) the failure is caught and the tentative ODE step is tried again
TentativeODEFails_retry ==
  /\ pc = "tentative_ode"
  /\ ode_in' = vs_
  /\ vs' = vs
  /\ trace' = Append(trace, Op("raise", t0, t, "vs_", "vs"))
  /\ pc' = "tentative_ode"
  /\ UNCHANGED << config, construction, caller, vs_, vur, stepper_t, cur, vs_entry, vs_star, pde_in,
                  emitted >>

\* self.ode_solver.step((t0, t)) raises: the exception leaves step and solve.
TentativeODEFails ==
  /\ pc = "tentative_ode"
  /\ ode_in' = vs_
  /\ vs' \in { vs, UnconvergedState(OdeStep(vs_, t0, t)) }
  /\ trace' = Append(trace, Op("raise", t0, t, "vs_", "vs"))
  /\ pc' = "failed"
  /\ UNCHANGED << config, construction, caller, vs_, vur, stepper_t, cur, vs_entry, vs_star, pde_in,
                  emitted >>

\* self.pde_solver.step((t0, t1)) raises: the exception leaves step and solve.
PDEStepFails ==
  /\ pc = "pde"
  /\ pde_in' = PdeInput.v
  /\ vur' \in { vur, UnconvergedField(PdeStep(PdeInput, t0, t1)) }
  /\ trace' = Append(trace, Op("raise", t0, t1, "vs", "vur"))
  /\ pc' = "failed"
  /\ UNCHANGED << config, construction, caller, vs_, vs, stepper_t, cur, vs_entry, ode_in, vs_star,
                  emitted >>

\* self.pde_solver.step((t0, t1))
PDEStep ==
  /\ pc = "pde"
  /\ pde_in' = PdeInput.v
  /\ vur' = PdeStep(PdeInput, t0, t1)
  /\ trace' = Append(trace, Op("pde", t0, t1, "vs", "vur"))
  /\ pc' = "decision"
  /\ UNCHANGED << config, construction, caller, vs_, vs, stepper_t, cur, vs_entry, ode_in, vs_star, emitted >>

IsGodunov == theta = ThetaDen

\* (mutant) the Godunov branch merges into the previous state
GodunovMerge_previous ==
  /\ pc = "decision"
  /\ IsGodunov
  /\ vs_' = Merge(vs_)
  /\ trace' = Append(trace, Op("merge", NoTime, NoTime, "vur", "vs_"))
  /\ pc' = "yield"
  /\ UNCHANGED << config, construction, caller, vs, vur, stepper_t, cur, ghosts, emitted >>

\* (mutant) the Godunov branch also ends with self.vs_.assign(self.vs)
GodunovMerge_assign ==
  /\ pc = "decision"
  /\ IsGodunov
  /\ vs' = Merge(vs)
  /\ vs_' = vs'
  /\ trace' = Append(trace, Op("merge", NoTime, NoTime, "vur", "vs"))
  /\ pc' = "yield"
  /\ UNCHANGED << config, construction, caller, vur, stepper_t, cur, ghosts,
                  emitted >>

\* if theta == 1.0: self.merge(self.vs); return
GodunovMerge ==
  /\ pc = "decision"
  /\ IsGodunov
  /\ vs' = Merge(vs)
  /\ trace' = Append(trace, Op("merge", NoTime, NoTime, "vur", "vs"))
  /\ pc' = "yield"
  /\ UNCHANGED << config, construction, caller, vs_, vur, stepper_t, cur, ghosts, emitted >>

\* (mutant) the tentative result is not committed before the merge
CommitTentative_skip ==
  /\ pc = "decision"
  /\ ~ IsGodunov
  /\ pc' = "merge_prev"
  /\ UNCHANGED << config, construction, caller, vs_, vs, vur, stepper_t, cur, ghosts, trace, emitted >>

\* self.vs_.assign(self.vs)   (first assignment of the corrective phase)
CommitTentative ==
  /\ pc = "decision"
  /\ ~ IsGodunov
  /\ vs_' = vs
  /\ trace' = Append(trace, Op("assign", NoTime, NoTime, "vs", "vs_"))
  /\ pc' = "merge_prev"
  /\ UNCHANGED << config, construction, caller, vs, vur, stepper_t, cur, ghosts, emitted >>

\* self.merge(self.vs_)
MergePrevious ==
  /\ pc = "merge_prev"
  /\ vs_' = Merge(vs_)
  /\ trace' = Append(trace, Op("merge", NoTime, NoTime, "vur", "vs_"))
  /\ pc' = "corrective_ode"
  /\ UNCHANGED << config, construction, caller, vs, vur, stepper_t, cur, ghosts, emitted >>

\* self.ode_solver.step((t, t1))
CorrectiveODE ==
  /\ pc = "corrective_ode"
  /\ ode_in' = vs_
  /\ vs' = OdeStep(vs_, t, t1)
  /\ trace' = Append(trace, Op("ode", t, t1, "vs_", "vs"))
  /\ pc' = "assign_prev"
  /\ UNCHANGED << config, construction, caller, vs_, vur, stepper_t, cur, vs_entry, vs_star, pde_in, emitted >>

\* self.ode_solver.step((t, t1)) raises: the exception leaves step and solve.
CorrectiveODEFails ==
  /\ pc = "corrective_ode"
  /\ ode_in' = vs_
  /\ vs' \in { vs, UnconvergedState(OdeStep(vs_, t, t1)) }
  /\ trace' = Append(trace, Op("raise", t, t1, "vs_", "vs"))
  /\ pc' = "failed"
  /\ UNCHANGED << config, construction, caller, vs_, vur, stepper_t, cur, vs_entry, vs_star, pde_in,
                  emitted >>

\* (mutant) step returns without its last assignment
AssignPrevious_missing ==
  /\ pc = "assign_prev"
  /\ pc' = "yield"
  /\ UNCHANGED << config, construction, caller, vs_, vs, vur, stepper_t, cur, ghosts, trace, emitted >>

\* (mutant) the name is rebound instead of the contents assigned:
\* self.vs_ = self.vs
AssignPrevious_rebind ==
  /\ pc = "assign_prev"
  /\ vs_' = vs
  /\ refs' = << refs[2], refs[2], refs[3] >>
  /\ trace' = Append(trace, Op("assign", NoTime, NoTime, "vs", "vs_"))
  /\ pc' = "yield"
  /\ UNCHANGED << config, caller, pde_theta, apply_stimulus_current_to_pde,
                  ode_I_s, pde_I_s, merger_V, vs, vur, stepper_t, cur, ghosts,
                  emitted >>

\* self.vs_.assign(self.vs)   (last statement of step)
AssignPrevious ==
  /\ pc = "assign_prev"
  /\ vs_' = vs
  /\ trace' = Append(trace, Op("assign", NoTime, NoTime, "vs", "vs_"))
  /\ pc' = "yield"
  /\ UNCHANGED << config, construction, caller, vs, vur, stepper_t, cur, ghosts, emitted >>

\* yield (t0, t1), self.solution_fields()
Yield ==
  /\ pc = "yield"
  /\ emitted' = Append(emitted, Element)
  /\ pc' = "suspended"
  /\ UNCHANGED << config, construction, caller, vs_, vs, vur, stepper_t, cur, ghosts, trace >>

\* (mutant) the previous state is not updated after the yield
ResumeNext_noassign ==
  /\ pc = "suspended"
  /\ StepperHasNext(stepper_t, interval)
  /\ EnterStep(vs_)
  /\ UNCHANGED << config, construction, caller, vs_, vs, vur, ode_in, vs_star, pde_in, emitted >>

\* Next request: self.vs_.assign(self.vs), then the next interval's step.
ResumeNext ==
  /\ pc = "suspended"
  /\ StepperHasNext(stepper_t, interval)
  /\ vs_' = vs
  /\ EnterStep(vs_')
  /\ UNCHANGED << config, construction, caller, vs, vur, ode_in, vs_star, pde_in, emitted >>

\* (mutant) the end of the intervals does not end the sequence
ResumeEnd_stay ==
  /\ pc = "suspended"
  /\ ~ StepperHasNext(stepper_t, interval)
  /\ vs_' = vs
  /\ UNCHANGED << config, construction, caller, vs, vur, pc, stepper_t, cur, ghosts, trace, emitted >>

\* (mutant) the sequence ends without the update of the previous state
ResumeEnd_noassign ==
  /\ pc = "suspended"
  /\ ~ StepperHasNext(stepper_t, interval)
  /\ pc' = "done"
  /\ UNCHANGED << config, construction, caller, vs_, vs, vur, stepper_t, cur,
                  ghosts, trace, emitted >>

\* Next request: self.vs_.assign(self.vs), and the Time Stepper is exhausted.
ResumeEnd ==
  /\ pc = "suspended"
  /\ ~ StepperHasNext(stepper_t, interval)
  /\ vs_' = vs
  /\ pc' = "done"
  /\ UNCHANGED << config, construction, caller, vs, vur, stepper_t, cur, ghosts, trace, emitted >>

Next ==
  \/ Solve
  \/ StartInvalid
  \/ StartFirst
  \/ TentativeODE
  \/ TentativeODEFails
  \/ PDEStep
  \/ PDEStepFails
  \/ GodunovMerge
  \/ CommitTentative
  \/ MergePrevious
  \/ CorrectiveODE
  \/ CorrectiveODEFails
  \/ AssignPrevious
  \/ Yield
  \/ ResumeNext
  \/ ResumeEnd

Spec == Init /\ [][Next]_vars

\* Every sub-step returns and the caller keeps requesting elements.
NextReturns ==
  \/ Solve
  \/ StartInvalid
  \/ StartFirst
  \/ TentativeODE
  \/ PDEStep
  \/ GodunovMerge
  \/ CommitTentative
  \/ MergePrevious
  \/ CorrectiveODE
  \/ AssignPrevious
  \/ Yield
  \/ ResumeNext
  \/ ResumeEnd

LiveSpec == Init /\ [][NextReturns]_vars /\ WF_vars(NextReturns)

(* ------------------- zero diffusion coupling -------------------------- *)
\* The same solver on a model without diffusion: the PDE step returns the v
\* it was given.
InitNoDiffusion == InitSolver /\ M_i = 0

SpecNoDiffusion == InitNoDiffusion /\ [][NextReturns]_vars

\* SingleCellSolver.solve: the cell model alone, one ODE step per interval,
\* each from the result of the one before.
RECURSIVE SingleCellSolve(_, _)
SingleCellSolve(x, ivs) ==
  IF ivs = << >> THEN x
  ELSE SingleCellSolve(OdeStep(x, Head(ivs)[1], Head(ivs)[2]), Tail(ivs))

(* ------------------- the Time Stepper on its own ---------------------- *)
StepperTimes == { ThetaDen * k : k \in 0 .. MaxStepperTime }

\* Lists of up to two further (switch-time, step size) pairs.
StepperLists ==
  LET pairs == StepperTimes \X StepSizes
  IN  { << >> } \cup { << p >> : p \in pairs }
              \cup { << p, q >> : p \in pairs, q \in pairs }

\* TimeStepper(interval, dt) for every interval and step specification.
InitStepper ==
  /\ theta = ThetaDen
  /\ pde_solver = "BidomainSolver"
  /\ interval \in StartTimes \X StepperTimes
  /\ dt \in StepSizes
  /\ dt_list \in StepperLists
  /\ vs_ = ZeroState
  /\ vs = ZeroState
  /\ vur = ZeroField
  /\ pc = "stepper_new"
  /\ stepper_t = interval[1]
  /\ cur = << interval[1], interval[1] >>
  /\ vs_entry = ZeroState
  /\ ode_in = ZeroState
  /\ vs_star = ZeroState
  /\ pde_in = 0
  /\ trace = << >>
  /\ emitted = << >>
  /\ M_i = 1
  /\ apply_stimulus_current_to_pde = FALSE
  /\ Constructed
  /\ ics = vs_
  /\ NoCaller

\* The step specification is rejected.
StepperReject ==
  /\ pc = "stepper_new"
  /\ ~ StepperValid(interval, dt)
  /\ pc' = "stepper_error"
  /\ UNCHANGED << config, construction, caller, vs_, vs, vur, stepper_t, cur, ghosts, trace, emitted >>

\* The step specification is accepted.
StepperAccept ==
  /\ pc = "stepper_new"
  /\ StepperValid(interval, dt)
  /\ pc' = "stepper_iter"
  /\ UNCHANGED << config, construction, caller, vs_, vs, vur, stepper_t, cur, ghosts, trace, emitted >>

\* The next interval is produced.
StepperProduce ==
  /\ pc = "stepper_iter"
  /\ StepperHasNext(stepper_t, interval)
  /\ cur' = StepperNext(stepper_t, interval, dt)
  /\ stepper_t' = cur'[2]
  /\ emitted' = Append(emitted, [ interval |-> cur' ])
  /\ UNCHANGED << config, construction, caller, vs_, vs, vur, pc, ghosts, trace >>

\* The sequence of intervals ends.
StepperStop ==
  /\ pc = "stepper_iter"
  /\ ~ StepperHasNext(stepper_t, interval)
  /\ pc' = "stepper_done"
  /\ UNCHANGED << config, construction, caller, vs_, vs, vur, stepper_t, cur, ghosts, trace, emitted >>

NextStepper ==
  \/ StepperReject
  \/ StepperAccept
  \/ StepperProduce
  \/ StepperStop

SpecStepper == InitStepper /\ [][NextStepper]_vars

(* ---------------- merge called twice in succession ------------------- *)
\* The solver between timesteps, with every value of the three fields; the
\* caller then calls merge(target) twice on the same target.
InitMerge ==
  /\ theta \in Thetas
  /\ pde_solver \in PDESolvers
  /\ interval = << 0, ThetaDen >>
  /\ dt = ThetaDen
  /\ dt_list = << >>
  /\ \E v \in Val, s \in Val : vs_ = CompositeState(v, s, 0, 0, 0)
  /\ \E v \in Val, s \in Val :
       vs = CompositeState(v, s, ThetaDen, 0, ThetaDen)
  /\ \E v \in Val, u \in Val : vur = PotentialField(v, u, ThetaDen, ThetaDen)
  /\ pc = "merge_call"
  /\ stepper_t = 0
  /\ cur = << 0, ThetaDen >>
  /\ vs_entry = vs_
  /\ ode_in = ZeroState
  /\ vs_star = ZeroState
  /\ pde_in = 0
  /\ trace = << >>
  /\ emitted = << >>
  /\ M_i = 1
  /\ apply_stimulus_current_to_pde = FALSE
  /\ Constructed
  /\ ics = vs_
  /\ NoCaller

\* solver.merge(target), target being previous or current
MergeCall(target) ==
  /\ IF target = "vs"
       THEN vs' = Merge(vs) /\ vs_' = vs_
       ELSE vs_' = Merge(vs_) /\ vs' = vs
  /\ trace' = Append(trace, Op("merge", NoTime, NoTime, "vur", target))
  /\ UNCHANGED << config, construction, caller, vur, stepper_t, cur, ode_in, vs_star, pde_in, emitted >>

\* The first of the two calls; vs_entry keeps the target before the call.
MergeOnce ==
  /\ pc = "merge_call"
  /\ \E target \in { "vs", "vs_" } :
       /\ MergeCall(target)
       /\ vs_entry' = (IF target = "vs" THEN vs ELSE vs_)
  /\ pc' = "merged_once"

\* The second call, on the same target; vs_entry keeps the target as the
\* first call left it.
MergeTwice ==
  /\ pc = "merged_once"
  /\ MergeCall(trace[1].dst)
  /\ vs_entry' = (IF trace[1].dst = "vs" THEN vs ELSE vs_)
  /\ pc' = "merged_twice"

NextMerge ==
  \/ MergeOnce
  \/ MergeTwice

SpecMerge == InitMerge /\ [][NextMerge]_vars

(* ------------------- the caller between requests --------------------- *)
\* The solver as constructed, before the caller has set initial conditions;
\* the first solve is over two steps of size ThetaDen.
InitCaller ==
  /\ theta \in Thetas
  /\ pde_solver \in { "BidomainSolver", "MonodomainSolver" }
  /\ interval = << 0, 2 * ThetaDen >>
  /\ dt = ThetaDen
  /\ dt_list = << >>
  /\ vs_ = ZeroState
  /\ vs = ZeroState
  /\ vur = ZeroField
  /\ pc = "idle"
  /\ stepper_t = interval[1]
  /\ cur = << interval[1], interval[1] >>
  /\ vs_entry = vs_
  /\ ode_in = ZeroState
  /\ vs_star = ZeroState
  /\ pde_in = 0
  /\ trace = << >>
  /\ emitted = << >>
  /\ M_i = 1
  /\ apply_stimulus_current_to_pde = FALSE
  /\ Constructed
  /\ ics = vs_
  /\ NoCaller

\* The caller's writes since the last yield (since construction, before the
\* first one).
EditsNow == { e \in edits : e.at = Len(emitted) }

Edited(field) == \E e \in EditsNow : e.field = field

EditValue(field) == (CHOOSE e \in EditsNow : e.field = field).value

Edit(field, x) == [ field |-> field, value |-> x, at |-> Len(emitted) ]

\* vs_, vs, vur = solver.solution_fields()
CallSolutionFields ==
  /\ pc \in { "idle", "created", "suspended", "done" }
  /\ SolutionFields \notin handles
  /\ handles' = handles \cup { SolutionFields }
  /\ UNCHANGED << config, construction, ics, edits, prior, vs_, vs, vur, pc,
                  stepper_t, cur, ghosts, trace, emitted >>

\* vs_.assign(initial conditions), on the previous field that
\* solution_fields() returned, before the first element is requested: the
\* write lands in the solver's field when that object is still self.vs_.
SetInitialConditions ==
  /\ pc \in { "idle", "created" }
  /\ prior = "none"
  /\ ~ Edited("vs_")
  /\ \E h \in handles, v \in Val, s \in Val :
       LET x == CompositeState(v, s, interval[1], interval[1], interval[1])
       IN  /\ vs_' = (IF h[1] = refs[1] THEN x ELSE vs_)
           /\ ics' = x
           /\ edits' = { Edit("vs_", x) }
  /\ UNCHANGED << config, construction, handles, prior, vs, vur, pc, stepper_t,
                  cur, ghosts, trace, emitted >>

\* The caller writes a new v into the previous or the current field of the
\* element it was handed, while the sequence is suspended.
CallerWrites ==
  /\ pc = "suspended"
  /\ \E field \in { "vs_", "vs" }, v \in Val :
       LET h == emitted[Len(emitted)].fields
           old == IF field = "vs" THEN vs ELSE vs_
           x == [ old EXCEPT !.v = v ]
       IN  /\ ~ Edited(field)
           /\ x # old
           /\ vs_' = (IF field = "vs_" /\ h[1] = refs[1] THEN x ELSE vs_)
           /\ vs' = (IF field = "vs" /\ h[2] = refs[2] THEN x ELSE vs)
           /\ edits' = EditsNow \cup { Edit(field, x) }
  /\ UNCHANGED << config, construction, ics, handles, prior, vur, pc,
                  stepper_t, cur, ghosts, trace, emitted >>

\* The caller drops the sequence (suspended at a yield, or consumed to its
\* end) and calls solver.solve((t1, t1 + dt), dt) on the same solver, from
\* the end of the last emitted interval.
SolveAgain ==
  /\ pc \in { "suspended", "done" }
  /\ prior = "none"
  /\ interval' = << cur[2], cur[2] + dt >>
  /\ stepper_t' = interval'[1]
  /\ cur' = << interval'[1], interval'[1] >>
  /\ prior' = pc
  /\ pc' = "created"
  /\ UNCHANGED << theta, pde_solver, dt, dt_list, M_i, construction, ics, edits,
                  handles, vs_, vs, vur, ghosts, trace, emitted >>

NextCaller ==
  \/ CallSolutionFields
  \/ SetInitialConditions
  \/ CallerWrites
  \/ SolveAgain
  \/ Solve
  \/ StartFirst
  \/ TentativeODE
  \/ PDEStep
  \/ GodunovMerge
  \/ CommitTentative
  \/ MergePrevious
  \/ CorrectiveODE
  \/ AssignPrevious
  \/ Yield
  \/ ResumeNext
  \/ ResumeEnd

SpecCaller == InitCaller /\ [][NextCaller]_vars

(* ----------------------- the constructor ------------------------------ *)
\* SplittingSolver(model, parameters, pde_parameters, ...) is called with
\* every combination of the two thetas, the PDE solver and the stimulus flag.
InitConstruct ==
  /\ theta \in Thetas
  /\ pde_theta \in Thetas
  /\ pde_solver \in PDESolvers
  /\ apply_stimulus_current_to_pde \in BOOLEAN
  /\ M_i = 1
  /\ interval = << 0, ThetaDen >>
  /\ dt = ThetaDen
  /\ dt_list = << >>
  /\ vs_ = ZeroState
  /\ vs = ZeroState
  /\ vur = ZeroField
  /\ pc = "init"
  /\ stepper_t = 0
  /\ cur = << 0, 0 >>
  /\ vs_entry = ZeroState
  /\ ode_in = ZeroState
  /\ vs_star = ZeroState
  /\ pde_in = 0
  /\ trace = << >>
  /\ emitted = << >>
  /\ ode_I_s = Unbound
  /\ pde_I_s = Unbound
  /\ merger_V = Unbound
  /\ refs = << Unbound, Unbound, Unbound >>
  /\ ics = ZeroState
  /\ NoCaller

\* (mutant) the two thetas are not compared
AssertTheta_skipped ==
  /\ pc = "init"
  /\ pc' = "create_ode"
  /\ UNCHANGED << config, construction, caller, vs_, vs, vur, stepper_t, cur,
                  ghosts, trace, emitted >>

\* assert self.parameters.theta == self.pde_parameters.theta  (holds)
AssertTheta ==
  /\ pc = "init"
  /\ theta = pde_theta
  /\ pc' = "create_ode"
  /\ UNCHANGED << config, construction, caller, vs_, vs, vur, stepper_t, cur,
                  ghosts, trace, emitted >>

\* assert self.parameters.theta == self.pde_parameters.theta  (fails)
AssertThetaFails ==
  /\ pc = "init"
  /\ theta # pde_theta
  /\ pc' = "assertion_error"
  /\ UNCHANGED << config, construction, caller, vs_, vs, vur, stepper_t, cur,
                  ghosts, trace, emitted >>

\* self.ode_solver = self._create_ode_solver()
\* self.vs_, self.vs = self.ode_solver.solution_fields()
CreateODESolver ==
  /\ pc = "create_ode"
  /\ ode_I_s' = OdeStimulus
  /\ refs' = OdeFields \o << refs[3] >>
  /\ pc' = "create_pde"
  /\ UNCHANGED << config, caller, pde_theta, apply_stimulus_current_to_pde,
                  pde_I_s, merger_V, vs_, vs, vur, stepper_t, cur, ghosts,
                  trace, emitted >>

\* self.pde_solver = self._create_pde_solver()
\* self.v_, self.vur = self.pde_solver.solution_fields()
CreatePDESolver ==
  /\ pc = "create_pde"
  /\ pde_I_s' = PdeStimulus
  /\ refs' = << refs[1], refs[2], PdeField >>
  /\ pc' = "create_merger"
  /\ UNCHANGED << config, caller, pde_theta, apply_stimulus_current_to_pde,
                  ode_I_s, merger_V, vs_, vs, vur, stepper_t, cur, ghosts,
                  trace, emitted >>

\* self.merger = FunctionAssigner(self.VS.sub(0), V)
CreateMerger ==
  /\ pc = "create_merger"
  /\ merger_V' = MergerSpace
  /\ pc' = "idle"
  /\ UNCHANGED << config, caller, pde_theta, apply_stimulus_current_to_pde,
                  ode_I_s, pde_I_s, refs, vs_, vs, vur, stepper_t, cur, ghosts,
                  trace, emitted >>

NextConstruct ==
  \/ AssertTheta
  \/ AssertThetaFails
  \/ CreateODESolver
  \/ CreatePDESolver
  \/ CreateMerger

SpecConstruct == InitConstruct /\ [][NextConstruct]_vars

(* ------------------ construction, then one solve --------------------- *)
\* The constructor followed by the caller's initial conditions and one
\* solve of a single timestep on the solver it built.
NextLifecycle ==
  \/ AssertTheta
  \/ AssertThetaFails
  \/ CreateODESolver
  \/ CreatePDESolver
  \/ CreateMerger
  \/ CallSolutionFields
  \/ SetInitialConditions
  \/ Solve
  \/ StartFirst
  \/ TentativeODE
  \/ PDEStep
  \/ GodunovMerge
  \/ CommitTentative
  \/ MergePrevious
  \/ CorrectiveODE
  \/ AssignPrevious
  \/ Yield
  \/ ResumeEnd

SpecLifecycle == InitConstruct /\ [][NextLifecycle]_vars

(* ------------------------------ claims -------------------------------- *)

StrangTrace ==
  << Op("ode", t0, t, "vs_", "vs"),
     Op("pde", t0, t1, "vs", "vur"),
     Op("assign", NoTime, NoTime, "vs", "vs_"),
     Op("merge", NoTime, NoTime, "vur", "vs_"),
     Op("ode", t, t1, "vs_", "vs"),
     Op("assign", NoTime, NoTime, "vs", "vs_") >>

\* C2: with theta < 1.0 a step executes exactly: tentative ODE over (t0,t),
\* PDE over (t0,t1), previous := current, merge into previous, corrective
\* ODE over (t,t1), previous := current; so previous = current at the
\* emission.
C2_StrangSequence ==
  (pc = "yield" /\ ~ IsGodunov)
    => (trace = StrangTrace /\ vs_ = vs)

C2_Witness ==
  /\ pc = "yield"
  /\ ~ IsGodunov
  /\ Len(trace) = 6
  /\ t0 < t /\ t < t1
  /\ vs_ # vs_entry

GodunovTrace ==
  << Op("ode", t0, t1, "vs_", "vs"),
     Op("pde", t0, t1, "vs", "vur"),
     Op("merge", NoTime, NoTime, "vur", "vs") >>

\* C3: with theta == 1.0 a step executes exactly one ODE step over (t0,t1)
\* (t = t1), one PDE step over (t0,t1) and the merge into current, and
\* nothing else; the emitted current is (v_pde, s*).
C3_GodunovSequence ==
  (pc = "yield" /\ IsGodunov)
    => /\ t = t1
       /\ trace = GodunovTrace
       /\ vs.v = VSub(vur)
       /\ vs.v = PdeV(pde_in, t1 - t0)
       /\ vs.s = vs_star.s
       /\ vs.sode = vs_star.sode

C3_Witness ==
  /\ pc = "yield"
  /\ IsGodunov
  /\ Len(trace) = 3
  /\ vs.v # vs_star.v
  /\ vs.s # vs_entry.s

\* C4: with theta < 1.0 the corrective ODE step reads a state whose v is
\* the v of this timestep's PDE step and whose s is the s* of this
\* timestep's tentative ODE step; the final current is the corrective ODE
\* step's output on that state.
C4_CorrectiveInput ==
  (pc \in { "assign_prev", "yield" } /\ ~ IsGodunov)
    => /\ ode_in.v = VSub(vur)
       /\ ode_in.v = PdeV(pde_in, t1 - t0)
       /\ vur.vpde \in { t1, NoTime }
       /\ ode_in.s = vs_star.s
       /\ ode_in.sode = vs_star.sode
       /\ vs = OdeStep(ode_in, t, t1)

C4_Witness ==
  /\ pc = "assign_prev"
  /\ ~ IsGodunov
  /\ ode_in.v # vs_star.v
  /\ ode_in.s # vs_entry.s
  /\ ode_in.s = vs_star.s
  /\ vs # ode_in
\* C5: on exit from step the v of vur equals the v of current when
\* theta = 1.0; for theta < 1.0 current's v is the corrective ODE step's
\* output and need not equal it.
C5_VurVEqualsCurrentV ==
  /\ (pc = "yield" /\ IsGodunov) => VSub(vur) = vs.v
  /\ (pc = "yield" /\ ~ IsGodunov) => vs.v = OdeStep(ode_in, t, t1).v

C5_Witness ==
  /\ pc = "yield"
  /\ IsGodunov
  /\ Len(emitted) >= 1
  /\ VSub(vur) = vs.v
  /\ VSub(vur) # vs_star.v

\* A Strang step whose emitted current v differs from the v of vur.
C5_StrangDiffers ==
  /\ pc = "yield"
  /\ ~ IsGodunov
  /\ VSub(vur) # vs.v

\* C6: the PDE step reads the v that the tentative ODE step of the same
\* timestep wrote into current, and leaves current as that step wrote it.
C6_PdeReadsTentativeV ==
  pc = "decision"
    => /\ pde_in = vs_star.v
       /\ vur = PdeStep(vs_star, t0, t1)
       /\ vs = vs_star
       /\ vs_star = OdeStep(vs_entry, t0, t)
       /\ trace = << Op("ode", t0, t, "vs_", "vs"),
                     Op("pde", t0, t1, "vs", "vur") >>

C6_Witness ==
  /\ pc = "decision"
  /\ Len(emitted) >= 1
  /\ pde_in = vs_star.v
  /\ pde_in # vs_.v
  /\ pde_in # emitted[Len(emitted)].vs.v

\* C7: merge(target) overwrites only the v sub-component of target with the
\* v of vur; the s of target, the other CompositeState and vur are unchanged.
C7_MergeFrame ==
  [][ /\ (pc = "decision" /\ IsGodunov)
          => /\ vs'.v = VSub(vur)
             /\ vs'.s = vs.s /\ vs'.sode = vs.sode
             /\ vs_' = vs_
             /\ vur' = vur
      /\ pc = "merge_prev"
          => /\ vs_'.v = VSub(vur)
             /\ vs_'.s = vs_.s /\ vs_'.sode = vs_.sode
             /\ vs' = vs
             /\ vur' = vur ]_vars

C7_Witness ==
  /\ pc = "corrective_ode"
  /\ vs_.v = VSub(vur)
  /\ vs_.v # vs.v
  /\ vs_.s = vs.s
  /\ vs_.s # vs_.v

MergeTarget == IF trace[1].dst = "vs" THEN vs ELSE vs_

\* C8: merge is idempotent: with vur unchanged between two successive calls
\* of merge(target), target after the second call equals target after the
\* first call.
C8_MergeIdempotent ==
  pc = "merged_twice" => MergeTarget = vs_entry

C8_Witness ==
  /\ pc = "merged_twice"
  /\ Len(trace) = 2
  /\ MergeTarget = vs_entry
  /\ MergeTarget.v = VSub(vur)
  /\ MergeTarget.v # MergeTarget.s

\* C9: solve emits exactly one element per interval of the Time Stepper, in
\* the stepper's order, none skipped or repeated; each element carries the
\* interval whose step has just completed and the three fields.
C9_OneElementPerInterval ==
  LET all == StepperIntervals(interval[1], interval, dt)
      n == Len(emitted)
  IN  /\ n <= Len(all)
      /\ \A i \in 1 .. n : emitted[i].interval = all[i]
      /\ pc = "done" => n = Len(all)
      /\ pc = "suspended" => emitted[n] = Element
      /\ pc \in { "tentative_ode", "pde", "decision", "merge_prev",
                  "corrective_ode", "assign_prev", "yield" }
           => (n < Len(all) /\ cur = all[n + 1])
      /\ pc \in { "idle", "created", "error" } => n = 0

C9_Witness ==
  /\ pc = "done"
  /\ Len(emitted) = 3
  /\ emitted[2].interval = << interval[1] + dt, interval[1] + 2 * dt >>
  /\ emitted[3].vs # emitted[2].vs

\* C10: for valid (T0, T1, dt) the intervals of the Time Stepper tile
\* [T0, T1]: the first starts at T0, each ends where the next starts, each
\* has start < end, and the last ends exactly at T1.
C10_IntervalsTile ==
  StepperValid(interval, dt)
    => LET n == Len(emitted)
       IN  /\ n >= 1 => emitted[1].interval[1] = interval[1]
           /\ \A i \in 1 .. n : emitted[i].interval[1] < emitted[i].interval[2]
           /\ \A i \in 1 .. (n - 1) :
                emitted[i].interval[2] = emitted[i + 1].interval[1]
           /\ pc = "done" => (n >= 1 /\ emitted[n].interval[2] = interval[2])
           /\ pc \in { "tentative_ode", "pde", "decision", "merge_prev",
                       "corrective_ode", "assign_prev", "yield" }
                => /\ t0 < t1 /\ t1 <= interval[2]
                   /\ t0 = (IF n = 0 THEN interval[1]
                                     ELSE emitted[n].interval[2])

C10_Witness ==
  /\ pc = "done"
  /\ Len(emitted) >= 2
  /\ (interval[2] - interval[1]) % dt # 0
  /\ emitted[Len(emitted)].interval[2] = interval[2]
Width(i) == emitted[i].interval[2] - emitted[i].interval[1]

\* C11: for a constant step size dt no interval is wider than dt and none
\* ends after T1; every interval but the last has width exactly dt, and the
\* last ends at T1.
C11_ConstantWidths ==
  dt_list = << >>
    => LET n == Len(emitted)
       IN  /\ \A i \in 1 .. n :
                Width(i) <= dt /\ emitted[i].interval[2] <= interval[2]
           /\ \A i \in 1 .. (n - 1) : Width(i) = dt
           /\ pc = "stepper_iter" /\ n >= 1
                => Width(n) = Min(dt, interval[2] - emitted[n].interval[1])
           /\ pc = "stepper_done"
                => (n >= 1 /\ emitted[n].interval[2] = interval[2])

C11_Witness ==
  /\ dt_list = << >>
  /\ pc = "stepper_done"
  /\ Len(emitted) >= 3
  /\ Width(Len(emitted)) < dt
  /\ Width(1) = dt

\* C12: for a constant step size dt and an interval of length n*dt the
\* Time Stepper produces exactly the n intervals (T0 + k*dt, T0 + (k+1)*dt),
\* k = 0..n-1.
C12_ExactCount ==
  (/\ dt_list = << >>
   /\ pc = "stepper_done"
   /\ (interval[2] - interval[1]) % dt = 0)
    => /\ Len(emitted) * dt = interval[2] - interval[1]
       /\ \A k \in 0 .. (Len(emitted) - 1) :
            emitted[k + 1].interval
              = << interval[1] + k * dt, interval[1] + (k + 1) * dt >>

\* dt = 0.1 on (0.0, 0.5), in units of 0.1 / ThetaDen: exactly 5 intervals.
C12_Witness ==
  /\ dt_list = << >>
  /\ pc = "stepper_done"
  /\ interval = << 0, 5 * ThetaDen >>
  /\ dt = ThetaDen
  /\ Len(emitted) = 5
  /\ emitted[5].interval = << 4 * ThetaDen, 5 * ThetaDen >>

\* The step size of the last pair of the list whose switch-time is at or
\* before time a.
SwitchedDt(a) ==
  LET l == << << interval[1], dt >> >> \o dt_list
  IN  IF Len(l) >= 3 /\ l[3][1] <= a THEN l[3][2]
      ELSE IF Len(l) >= 2 /\ l[2][1] <= a THEN l[2][2]
      ELSE l[1][2]

\* C13: for a list of (switch-time, dt) pairs the width of each interval is
\* the dt of the last pair whose switch-time is at or before the interval's
\* start (the last interval clipped to T1), and the intervals tile [T0,T1].
C13_VariableWidths ==
  LET n == Len(emitted)
  IN  /\ \A i \in 1 .. n :
           Width(i) = Min(SwitchedDt(emitted[i].interval[1]),
                          interval[2] - emitted[i].interval[1])
      /\ n >= 1 => emitted[1].interval[1] = interval[1]
      /\ \A i \in 1 .. (n - 1) :
           emitted[i].interval[2] = emitted[i + 1].interval[1]
      /\ \A i \in 1 .. n : Width(i) > 0
      /\ pc = "stepper_done"
           => (n >= 1 /\ emitted[n].interval[2] = interval[2])

\* [(0.0, 0.1), (0.2, 0.05)] on (0.0, 0.3), in units of 0.05 / ThetaDen:
\* widths 0.1, 0.1, 0.05, 0.05.
C13_Witness ==
  /\ pc = "stepper_done"
  /\ interval = << 0, 6 * ThetaDen >>
  /\ dt = 2 * ThetaDen
  /\ dt_list = << << 4 * ThetaDen, ThetaDen >> >>
  /\ Len(emitted) = 4
  /\ Width(1) = dt /\ Width(2) = dt
  /\ Width(3) = ThetaDen /\ Width(4) = ThetaDen
\* An invalid step specification: a step size <= 0, T0 >= T1, or
\* switch-times that are not strictly increasing.
InvalidStepSpec ==
  \/ dt <= 0
  \/ \E i \in 1 .. Len(dt_list) : dt_list[i][2] <= 0
  \/ interval[1] >= interval[2]
  \/ (Len(dt_list) >= 1 /\ dt_list[1][1] <= interval[1])
  \/ \E i \in 1 .. (Len(dt_list) - 1) : dt_list[i + 1][1] <= dt_list[i][1]

\* C14: with an invalid step specification solve fails before any stepping:
\* no ODE step, PDE step or merge runs, nothing is emitted, and previous,
\* current and vur are unchanged.
C14_InvalidSpecFailsFirst ==
  /\ InvalidStepSpec
       => /\ pc \in { "idle", "created", "error" }
          /\ trace = << >>
          /\ emitted = << >>
          /\ vs_ = vs_entry
          /\ vs = ZeroState
          /\ vur = ZeroField
  /\ pc = "error" => InvalidStepSpec

C14_Witness ==
  /\ pc = "error"
  /\ dt > 0
  /\ interval[1] < interval[2]
  /\ Len(dt_list) = 1
  /\ dt_list[1][2] > 0
  /\ dt_list[1][1] <= interval[1]
  /\ vs_.v # 0
LastOp(tr) == tr[Len(tr)].op

\* C17: a failing sub-step (tentative ODE, PDE or corrective ODE step) ends
\* the solve sequence: no element is emitted for that interval, no further
\* sub-step or interval is executed, and the failed sub-step is not retried.
C17_FailurePropagates ==
  [][ /\ pc # "failed"
      /\ (trace' # trace /\ trace' # << >> /\ LastOp(trace') = "raise")
           => pc' = "failed"
      /\ pc' = "failed"
           => /\ pc \in { "tentative_ode", "pde", "corrective_ode" }
              /\ trace' = Append(trace, trace'[Len(trace')])
              /\ LastOp(trace') = "raise"
              /\ emitted' = emitted
              /\ \A i \in 1 .. Len(emitted) : emitted[i].interval # cur
              /\ stepper_t' = stepper_t /\ cur' = cur
              /\ vs_' = vs_ ]_vars

C17_Witness ==
  /\ pc = "failed"
  /\ Len(emitted) >= 1
  /\ Len(trace) = 5
  /\ LastOp(trace) = "raise"
  /\ stepper_t < interval[2]

\* C18 as claimed: after a failed sub-step current and vur still hold the
\* values they had at the last yield.
C18_EmittedFieldsKept ==
  (pc = "failed" /\ Len(emitted) >= 1)
    => /\ vs = emitted[Len(emitted)].vs
       /\ vur = emitted[Len(emitted)].vur

\* C18, amended: after a failed tentative ODE step or PDE step, previous
\* still holds the state it had on entry to the step, which is the state
\* last emitted as current; after a failed corrective ODE step previous
\* holds the merged tentative state (v of vur, s of the tentative step).
C18_PreviousKeepsLastEmitted ==
  pc = "failed"
    => /\ Len(trace) \in { 1, 2 }
            => /\ vs_ = vs_entry
               /\ Len(emitted) >= 1 => vs_ = emitted[Len(emitted)].vs
       /\ Len(trace) > 2
            => /\ Len(trace) = 5 /\ ~ IsGodunov
               /\ vs_.v = VSub(vur) /\ vs_.s = vs_star.s

C18_Witness ==
  /\ pc = "failed"
  /\ Len(emitted) >= 1
  /\ Len(trace) = 2
  /\ IsGodunov
  /\ vs # emitted[Len(emitted)].vs
  /\ vs_ = emitted[Len(emitted)].vs
  /\ emitted[Len(emitted)].vs_ # emitted[Len(emitted)].vs
\* C15: for every valid interval and step specification, when every
\* sub-step returns and the caller keeps requesting elements, the sequence
\* ends after finitely many steps, exactly when the Time Stepper's intervals
\* are exhausted; it does not restart and nothing is emitted after the end.
C15_SolveTerminates ==
  /\ (~ InvalidStepSpec) ~> (pc = "done")
  /\ [][ /\ pc # "done"
         /\ pc' = "done"
              => /\ stepper_t = interval[2]
                 /\ Len(emitted)
                      = Len(StepperIntervals(interval[1], interval, dt))
                 /\ emitted' = emitted ]_vars

C15_Witness ==
  /\ pc = "done"
  /\ Len(emitted) = 2
  /\ dt_list # << >>
  /\ stepper_t = interval[2]
  /\ ~ IsGodunov
\* C16: solve is lazy and a step is atomic with respect to yields: creating
\* the sequence runs nothing, nothing runs while it is suspended, and an
\* element is yielded only after all sub-steps of its timestep.
C16_LazyAndAtomic ==
  [][ /\ pc = "idle"
          => /\ pc' = "created"
             /\ UNCHANGED << vs_, vs, vur, stepper_t, cur, trace, emitted, ghosts >>
      /\ pc \in { "created", "suspended" }
          => pc' \in { "error", "tentative_ode", "done" }
      /\ pc' = "tentative_ode"
          => (pc \in { "created", "suspended" } /\ trace' = << >> /\ vs' = vs)
      /\ emitted' # emitted
          => /\ pc = "yield" /\ pc' = "suspended"
             /\ trace = (IF IsGodunov THEN GodunovTrace ELSE StrangTrace)
             /\ emitted' = Append(emitted, Element)
             /\ UNCHANGED << vs_, vs, vur, trace >> ]_vars

C16_Witness ==
  /\ pc = "suspended"
  /\ Len(emitted) = 2
  /\ ~ IsGodunov
  /\ Len(trace) = 6
  /\ emitted[2].vs = vs

\* C19 as claimed: the solver writes previous only at interval boundaries,
\* for every theta.
C19_PreviousOnlyAtBoundaries ==
  [][ vs_' # vs_ => pc = "suspended" ]_vars

\* C19, amended: with theta = 1.0 the solver writes previous only at
\* interval boundaries; with theta < 1.0 step also writes it within the
\* timestep (previous := current, the merge into previous, and
\* previous := current after the corrective ODE step).
C19_PreviousWrites ==
  [][ vs_' # vs_
        => \/ pc = "suspended"
           \/ (~ IsGodunov /\ pc \in { "decision", "merge_prev", "assign_prev" })
    ]_vars

C19_Witness ==
  /\ pc = "corrective_ode"
  /\ ~ IsGodunov
  /\ vs_ # vs_entry
  /\ vs_ # vs
  /\ Len(emitted) >= 1

\* C20: previous and current are distinct storage: an ODE step reads
\* previous and writes only current, a PDE step writes only vur, and no
\* step writes previous and current together.
C20_ExecutorFrames ==
  [][ /\ pc \in { "tentative_ode", "corrective_ode" }
          => (vs_' = vs_ /\ vur' = vur /\ ode_in' = vs_)
      /\ (pc = "tentative_ode" /\ pc' = "pde") => vs' = OdeStep(vs_, t0, t)
      /\ pc = "pde" => (vs_' = vs_ /\ vs' = vs)
      /\ vs' # vs => vs_' = vs_
      /\ vs_' # vs_ => vs' = vs ]_vars

C20_Witness ==
  /\ pc = "pde"
  /\ Len(emitted) >= 1
  /\ vs # vs_
  /\ vs = vs_star
  /\ vs_ = vs_entry

\* C23: for every value of apply_stimulus_current_to_pde exactly one of the
\* two executors is constructed with the model's stimulus and the other
\* with none: the PDE executor when the flag is set, the ODE executor when
\* it is not.
C23_StimulusToExactlyOne ==
  pc \in { "create_merger", "idle" }
    => /\ { ode_I_s, pde_I_s } = { "stimulus", "None" }
       /\ (pde_I_s = "stimulus") = apply_stimulus_current_to_pde
       /\ (ode_I_s = "stimulus") = (~ apply_stimulus_current_to_pde)

C23_Witness ==
  /\ pc = "idle"
  /\ apply_stimulus_current_to_pde
  /\ pde_I_s = "stimulus"
  /\ ode_I_s = "None"

\* C21: the values the caller writes into the previous field returned by
\* solution_fields() before requesting the first element are the initial
\* conditions: the first tentative ODE step of solve reads exactly those
\* values, as its input state at T0.
C21_InitialConditionsRead ==
  (pc = "pde" /\ prior = "none" /\ t0 = interval[1])
    => /\ ode_in = ics
       /\ Edited("vs_") => ode_in = EditValue("vs_")
       /\ trace = << Op("ode", interval[1], t, "vs_", "vs") >>
       /\ vs = OdeStep(ics, interval[1], t)

C21_Witness ==
  /\ pc = "pde"
  /\ prior = "none"
  /\ t0 = interval[1]
  /\ Edited("vs_")
  /\ ics.v # 0 /\ ics.s # 0
  /\ ode_in = ics
  /\ ValidAt(ode_in, interval[1])

\* C22: previous, current and vur are created once at construction and
\* never replaced: every call of solution_fields() and every element
\* emitted by solve carries the same three objects, and the steps change
\* only their contents.
C22_SameFieldObjects ==
  /\ refs = OdeFields \o << PdeField >>
  /\ handles \subseteq { OdeFields \o << PdeField >> }
  /\ \A i \in 1 .. Len(emitted) :
       emitted[i].fields = OdeFields \o << PdeField >>
  /\ Cardinality({ refs[1], refs[2], refs[3] }) = 3

C22_Witness ==
  /\ pc = "suspended"
  /\ prior = "suspended"
  /\ Len(emitted) = 2
  /\ handles # { }
  /\ emitted[1].fields = emitted[2].fields
  /\ emitted[2].fields = SolutionFields
  /\ emitted[1].vs # emitted[2].vs
  /\ emitted[1].vs_ # emitted[2].vs_
  /\ emitted[1].vur # emitted[2].vur

\* C25: with zero diffusion coupling (the PDE step returns the v it was
\* given) the current emitted by the splitting solver for each interval
\* equals the result of integrating the cell model alone over the same
\* intervals from the same initial condition.
C25_MatchesPureOde ==
  \A i \in 1 .. Len(emitted) :
    LET all == StepperIntervals(interval[1], interval, dt)
        ode_vs == SingleCellSolve(ics, SubSeq(all, 1, i))
    IN  /\ emitted[i].vs.v = ode_vs.v
        /\ emitted[i].vs.s = ode_vs.s
        /\ emitted[i].vs.vode = ode_vs.vode
        /\ emitted[i].vs.sode = ode_vs.sode
        /\ ode_vs.vode = emitted[i].interval[2]

C25_Witness ==
  /\ pc = "suspended"
  /\ M_i = 0
  /\ Len(emitted) = 2
  /\ theta \notin { 0, ThetaDen }
  /\ emitted[2].vs.v # ics.v
  /\ emitted[2].vs.v # emitted[1].vs.v
  /\ VSub(vur) # vs.v
  /\ emitted[2].vs.v = SingleCellSolve(ics, << emitted[1].interval,
                                              emitted[2].interval >>).v

\* The current state as it stands at resumption: the state last emitted as
\* current, or what the caller wrote into current since.
CarriedCurrent ==
  IF Edited("vs") THEN EditValue("vs") ELSE emitted[Len(emitted)].vs

\* C27: on the request after a yield solve first assigns previous :=
\* current and only then starts the next tentative ODE step, so every
\* timestep after the first reads the current state as it stood at
\* resumption: a caller's change to current is carried into the next step,
\* a caller's change to previous is overwritten.
C27_ResumeTakesCurrent ==
  /\ [](pc = "tentative_ode" /\ t0 > interval[1]
          => (vs_ = vs /\ vs_ = CarriedCurrent /\ trace = << >>))
  /\ [](pc = "pde" /\ t0 > interval[1] => ode_in = CarriedCurrent)
  /\ [][ (pc = "suspended" /\ pc' = "tentative_ode")
           => (vs_' = vs /\ vs' = vs /\ trace' = << >>) ]_vars

C27_Witness ==
  /\ pc = "pde"
  /\ t0 > interval[1]
  /\ Edited("vs") /\ Edited("vs_")
  /\ EditValue("vs_") # EditValue("vs")
  /\ ode_in = EditValue("vs")
  /\ ode_in # emitted[Len(emitted)].vs
  /\ EditValue("vs_") # emitted[Len(emitted)].vs_

\* C28: with theta = 1.0 step never writes previous: at the emission for
\* (t0,t1) previous still is the state it held on entry to step (the state
\* at t0) while current is the state at t1; previous becomes equal to
\* current only when the caller requests the next element.
C28_GodunovKeepsPrevious ==
  /\ []((IsGodunov /\ pc \in { "tentative_ode", "pde", "decision", "yield",
                               "suspended" })
          => vs_ = vs_entry)
  /\ []((IsGodunov /\ pc \in { "yield", "suspended" })
          => (ValidAt(vs_, t0) /\ ValidAt(vs, t1) /\ vs_ # vs))
  /\ [][ (IsGodunov /\ vs_' # vs_)
           => (pc = "suspended" /\ vs_' = vs /\ vs' = vs) ]_vars

C28_Witness ==
  /\ pc = "suspended"
  /\ IsGodunov
  /\ Len(emitted) = 2
  /\ emitted[2].vs_ = emitted[1].vs
  /\ emitted[2].vs_ # emitted[2].vs
  /\ emitted[2].vs_.v # emitted[2].vs.v
  /\ ValidAt(emitted[2].vs_, emitted[2].interval[1])

\* The first tentative ODE step of a solve that follows a sequence the
\* caller left in position p has just run.
FirstStepAfter(p) == pc = "pde" /\ prior = p /\ t0 = interval[1]

\* C29 as claimed: after the caller abandons a sequence right after a yield
\* and starts a new solve from the end of the last emitted interval, the
\* first tentative ODE step reads the state last emitted as current, for
\* theta = 1.0 and for theta < 1.0.
C29_NewSolveReadsEmittedCurrent ==
  (FirstStepAfter("suspended") /\ EditsNow = { })
    => ode_in = emitted[Len(emitted)].vs

\* C29, amended: the first tentative ODE step of the new solve reads
\* previous as the abandoned sequence left it (or as the caller wrote it
\* since): for theta < 1.0 that is the state last emitted as current, for
\* theta = 1.0 it is the state at the start of the last emitted interval
\* (given initial conditions at T0).
C29_NewSolveReadsPrevious ==
  FirstStepAfter("suspended")
    => LET last == emitted[Len(emitted)]
       IN  /\ ode_in = (IF Edited("vs_") THEN EditValue("vs_") ELSE last.vs_)
           /\ ~ IsGodunov => last.vs_ = last.vs
           /\ (IsGodunov /\ Edited("vs_") /\ ics.vode # NoTime)
                => EditValue("vs_").vode = last.interval[1]
           /\ (IsGodunov /\ ics.vode # NoTime)
                => /\ last.vs_ # last.vs
                   /\ ValidAt(last.vs_, last.interval[1])
                   /\ ValidAt(last.vs, last.interval[2])

C29_Witness ==
  /\ FirstStepAfter("suspended")
  /\ EditsNow = { }
  /\ IsGodunov
  /\ Len(emitted) = 2
  /\ ode_in = emitted[2].vs_
  /\ ode_in.v # emitted[2].vs.v
  /\ interval[1] = emitted[2].interval[2]

\* C30: after a sequence has been consumed to its end previous equals
\* current for every theta, so a following solve on the same solver
\* continues from the final emitted state.
C30_ConsumedLeavesPreviousCurrent ==
  /\ pc = "done" => (vs_ = vs /\ vs_ = CarriedCurrent)
  /\ FirstStepAfter("done") => ode_in = CarriedCurrent
  /\ (FirstStepAfter("done") /\ EditsNow = { })
       => /\ ode_in = emitted[Len(emitted)].vs
          /\ ics.vode # NoTime => ValidAt(ode_in, interval[1])

C30_Witness ==
  /\ FirstStepAfter("done")
  /\ EditsNow = { }
  /\ IsGodunov
  /\ Len(emitted) = 2
  /\ ode_in = emitted[2].vs
  /\ ode_in # emitted[2].vs_
  /\ interval[1] = emitted[2].interval[2]

\* C31: for every theta in [0,1] and every interval (t0,t1) with t0 < t1,
\* each sub-interval that step hands to an ODE or PDE executor lies within
\* [t0,t1] and has its start strictly before its end.
C31_SubIntervalsValid ==
  (pc \in { "pde", "decision", "merge_prev", "corrective_ode", "assign_prev",
            "yield", "failed" } /\ t0 < t1)
    => \A i \in 1 .. Len(trace) :
         trace[i].op \in { "ode", "pde", "raise" }
           => /\ t0 <= trace[i].a
              /\ trace[i].a < trace[i].b
              /\ trace[i].b <= t1

\* The same with theta = 0 set aside: only the tentative ODE step of
\* theta = 0 is handed an empty interval, (t0, t0).
C31_SubIntervalsValidPositiveTheta ==
  /\ theta > 0 => C31_SubIntervalsValid
  /\ (theta = 0 /\ Len(trace) >= 1)
       => /\ trace[1].a = t0 /\ trace[1].b = t0
          /\ \A i \in 2 .. Len(trace) :
               trace[i].op \in { "ode", "pde", "raise" }
                 => (t0 <= trace[i].a /\ trace[i].a < trace[i].b
                     /\ trace[i].b <= t1)

\* C32: for theta < 1.0, when the caller does not modify the fields while
\* the sequence is suspended, the assignment previous := current after the
\* yield changes nothing (previous = current at the yield already), so the
\* next step starts from the same state with or without it; and the net
\* effect of one Strang timestep is: merge v_pde into the committed
\* tentative state, corrective ODE step on it, previous := current.
C32_PostYieldAssignRedundant ==
  /\ []((~ IsGodunov /\ pc = "yield")
          => LET merged == [ vs_star EXCEPT !.v = VSub(vur),
                                           !.vode = vur.vode,
                                           !.vpde = vur.vpde ]
             IN  /\ ode_in = merged
                 /\ vs = OdeStep(merged, t, t1)
                 /\ vs_ = vs)
  /\ []((~ IsGodunov /\ pc = "suspended" /\ EditsNow = { }) => vs_ = vs)
  /\ [][ (/\ ~ IsGodunov
          /\ pc = "suspended"
          /\ EditsNow = { }
          /\ pc' \in { "tentative_ode", "done" })
           => /\ vs_' = vs_ /\ vs' = vs /\ vur' = vur
              /\ pc' = "tentative_ode" => vs_entry' = vs_ ]_vars

C32_Witness ==
  /\ pc = "tentative_ode"
  /\ ~ IsGodunov
  /\ theta # 0
  /\ t0 > interval[1]
  /\ EditsNow = { }
  /\ trace = << >>
  /\ vs_ = emitted[Len(emitted)].vs_
  /\ vs_ = emitted[Len(emitted)].vs
  /\ vs_.v # VSub(vur)

\* C33: a solver is constructed only when the theta of the splitting
\* parameters equals the theta of the PDE parameters: if they differ,
\* construction fails before any executor or solution field is created; in
\* every constructed solver the two thetas are equal.
C33_ThetaAsserted ==
  /\ theta # pde_theta
       => /\ pc \in { "init", "assertion_error" }
          /\ ode_I_s = Unbound /\ pde_I_s = Unbound /\ merger_V = Unbound
          /\ refs = << Unbound, Unbound, Unbound >>
  /\ pc = "assertion_error" => theta # pde_theta
  /\ pc \in { "create_ode", "create_pde", "create_merger", "idle" }
       => theta = pde_theta
  /\ pc = "idle" => Constructed

C33_Witness ==
  /\ pc = "assertion_error"
  /\ theta = ThetaDen
  /\ pde_theta # ThetaDen
  /\ refs = << Unbound, Unbound, Unbound >>
  /\ ode_I_s = Unbound

\* C34: for every PDE solver variant what merge copies into the target's v
\* is the PDE's transmembrane potential: sub-component 0 of vur for the
\* bidomain variants, vur itself for the monodomain variants; and the
\* variant test that built the merger at construction agrees with the one
\* merge makes.
C34_MergeSourceIsV ==
  /\ merger_V # Unbound => merger_V = MergeSourceSpace
  /\ merger_V # Unbound
       => (merger_V = "vur.sub(0)")
            = (pde_solver \in { "BasicBidomainSolver", "BidomainSolver" })
  /\ ((pc = "yield" /\ IsGodunov) \/ pc = "corrective_ode")
       => LET target == IF IsGodunov THEN vs ELSE vs_
          IN  /\ target.v = PdeV(pde_in, t1 - t0)
              /\ merger_V = "vur.sub(0)" => target.v = vur.f[1]
              /\ merger_V = "vur" => target.v = vur.f
              /\ target.s = vs_star.s

C34_Witness ==
  /\ pc = "corrective_ode"
  /\ pde_solver = "BasicBidomainSolver"
  /\ merger_V = "vur.sub(0)"
  /\ vs_.v = vur.f[1]
  /\ vs_.v # vur.f[2]
  /\ vs_.v # vs_star.v
  /\ ics.v # 0
====
